---- MODULE Spec2Model ----
(***************************************************************************)
(* Model of app.py: the YouTube earnings estimator.                        *)
(*                                                                         *)
(*   - Spec     : one request at a time through index(); every outbound    *)
(*                call is logged with the time at which it left the gate.  *)
(*   - SpecGate : several server threads inside rate_limit() at once,      *)
(*                one step per statement of rate_limit().                  *)
(*                                                                         *)
(* Text (URLs, form fields) is a sequence of characters; a dict is a       *)
(* function whose DOMAIN is the set of keys present.  A float is an exact  *)
(* fraction [n, d]; round(x, 2) is round-half-even of the exact value.     *)
(***************************************************************************)
EXTENDS Integers, Sequences, FiniteSets, TLC

VARIABLES
    phase,         \* "idle" | "rendered" (render_template returned) | "crashed" (exception left index())
    method,        \* request.method of the request served last
    form,          \* request.form of the request served last
    lookup_resp,   \* answer of the search endpoint, NoResponse when it was not called
    stats_resp,    \* answer of the channels endpoint, NoResponse when it was not called
    result,        \* local `result` of index()
    error,         \* local `error` of index()
    calls,         \* outbound calls of the request, in order: [api, at]
    clock,         \* time.time(), in seconds
    last_request,  \* module global last_request
    pc,            \* SpecGate: statement each thread is at inside rate_limit()
    now,           \* SpecGate: local `now` of each thread
    delay,         \* SpecGate: local `delay` of each thread
    wake,          \* SpecGate: earliest time at which time.sleep(delay) returns
    passed         \* SpecGate: times at which a caller stored last_request and left the gate

vars == <<phase, method, form, lookup_resp, stats_resp, result, error, calls,
          clock, last_request, pc, now, delay, wake, passed>>

pipeVars == <<phase, method, form, lookup_resp, stats_resp, result, error, calls>>
gateVars == <<pc, now, delay, wake, passed>>

-----------------------------------------------------------------------------
(* Bounds *)

MaxBody == 2      \* characters following the prefix of a URL
MaxClock == 2     \* the clock stops here
MaxPasses == 3    \* gate passes recorded in SpecGate
NThreads == 2     \* server threads in SpecGate

-----------------------------------------------------------------------------
(* Python values *)

None == [some |-> FALSE]

Some(v) == [some |-> TRUE, v |-> v]

IsNone(x) == ~x.some

NoResponse == [status |-> "not called"]

RATE_LIMIT_DELAY == 1

Get(d, k, default) == IF k \in DOMAIN d THEN d[k] ELSE default

Has(d, k) == k \in DOMAIN d

BoundedSeq(S, n) == UNION {[1..m -> S] : m \in 0..n}

\* every dict whose keys are among `keys`, the value of key k drawn from vals[k]
RECURSIVE Dicts(_, _)
Dicts(keys, vals) ==
    IF keys = {} THEN {<<>>}
    ELSE LET k    == CHOOSE k \in keys : TRUE
             rest == Dicts(keys \ {k}, vals)
         IN  rest \cup { (k :> v) @@ d : d \in rest, v \in vals[k] }

-----------------------------------------------------------------------------
(* Floats as exact fractions *)

RECURSIVE GCD(_, _)
GCD(a, b) == IF b = 0 THEN a ELSE GCD(b, a % b)

Abs(i) == IF i < 0 THEN -i ELSE i

Lowest(n, d, k) == [n |-> n \div k, d |-> d \div k]

\* the fraction n/d, d > 0, in lowest terms
Frac(n, d) == Lowest(n, d, GCD(Abs(n), d))

FromInt(i) == Frac(i, 1)

FMul(a, b) == Frac(a.n * b.n, a.d * b.d)

FDiv(a, b) == IF b.n > 0 THEN Frac(a.n * b.d, a.d * b.n) ELSE Frac(-(a.n * b.d), a.d * (-b.n))

FEq(a, b) == a.n * b.d = b.n * a.d

FLe(a, b) == a.n * b.d <= b.n * a.d

Trunc(a) == IF a.n >= 0 THEN a.n \div a.d ELSE -((-a.n) \div a.d)

RoundHalfEven(n, d) ==
    LET q == n \div d
        r == n - q * d
    IN  IF 2 * r < d THEN q
        ELSE IF 2 * r > d THEN q + 1
        ELSE IF q % 2 = 0 THEN q ELSE q + 1

Round2(a) == Frac(RoundHalfEven(a.n * 100, a.d), 100)

-----------------------------------------------------------------------------
(* Text *)

Digits == <<"0", "1", "2", "3", "4", "5", "6", "7", "8", "9">>

IsDigit(c) == \E i \in 1..10 : Digits[i] = c

DigitVal(c) == (CHOOSE i \in 1..10 : Digits[i] = c) - 1

RECURSIVE IntVal(_)
IntVal(s) == IF s = <<>> THEN 0 ELSE 10 * IntVal(SubSeq(s, 1, Len(s) - 1)) + DigitVal(s[Len(s)])

RECURSIVE Pow10(_)
Pow10(k) == IF k = 0 THEN 1 ELSE 10 * Pow10(k - 1)

\* str.strip(): leading and trailing whitespace removed
RECURSIVE Strip(_)
Strip(s) ==
    IF s = <<>> THEN s
    ELSE IF s[1] = " " THEN Strip(Tail(s))
    ELSE IF s[Len(s)] = " " THEN Strip(SubSeq(s, 1, Len(s) - 1))
    ELSE s

\* float(text): [ok |-> TRUE, v |-> value] or [ok |-> FALSE] for ValueError.
\* Decimal literals: optional sign, digits, optional point and digits.
ParseDigits(ip, fp, neg) ==
    IF /\ Len(ip) + Len(fp) >= 1
       /\ \A i \in 1..Len(ip) : IsDigit(ip[i])
       /\ \A i \in 1..Len(fp) : IsDigit(fp[i])
    THEN [ok |-> TRUE,
          v  |-> Frac((IF neg THEN -1 ELSE 1) * (IntVal(ip) * Pow10(Len(fp)) + IntVal(fp)),
                      Pow10(Len(fp)))]
    ELSE [ok |-> FALSE]

ParseParts(body, dot, neg) ==
    ParseDigits(SubSeq(body, 1, dot - 1), SubSeq(body, dot + 1, Len(body)), neg)

FirstDot(body) ==
    IF \E i \in 1..Len(body) : body[i] = "."
    THEN CHOOSE i \in 1..Len(body) : body[i] = "." /\ \A j \in 1..(i - 1) : body[j] # "."
    ELSE Len(body) + 1

ParseSigned(s) ==
    IF s # <<>> /\ s[1] \in {"-", "+"}
    THEN ParseParts(Tail(s), FirstDot(Tail(s)), s[1] = "-")
    ELSE ParseParts(s, FirstDot(s), FALSE)

ParseFloat(text) == ParseSigned(Strip(text))

-----------------------------------------------------------------------------
(* extract_channel_id *)

P_CHANNEL == "youtube.com/channel/"
P_HANDLE  == "youtube.com/@"
P_CUSTOM  == "youtube.com/c/"
P_USER    == "youtube.com/user/"
P_SHORT   == "youtu.be/"

patterns == <<P_CHANNEL, P_HANDLE, P_CUSTOM, P_USER, P_SHORT>>

\* the characters of the class [a-zA-Z0-9_-] that occur in the modelled URLs
IdChars == {"U", "C"}

MatchAt(url, i, prefix) ==
    /\ url[i] = prefix
    /\ i + 1 <= Len(url)
    /\ url[i + 1] \in IdChars

Matches(url, prefix) == \E i \in 1..Len(url) : MatchAt(url, i, prefix)

FirstMatch(url, prefix) ==
    CHOOSE i \in 1..Len(url) :
        MatchAt(url, i, prefix) /\ \A j \in 1..(i - 1) : ~MatchAt(url, j, prefix)

RunEnd(url, from) ==
    CHOOSE e \in from..Len(url) :
        /\ \A k \in from..e : url[k] \in IdChars
        /\ e = Len(url) \/ url[e + 1] \notin IdChars

\* group(1) of the leftmost match: the longest run of IdChars after the prefix
Group1(url, prefix) ==
    SubSeq(url, FirstMatch(url, prefix) + 1, RunEnd(url, FirstMatch(url, prefix) + 1))

\* index of the first pattern of the list that matches, 0 when none does
FirstPattern(url) ==
    IF \E p \in 1..Len(patterns) : Matches(url, patterns[p])
    THEN CHOOSE p \in 1..Len(patterns) :
             Matches(url, patterns[p]) /\ \A q \in 1..(p - 1) : ~Matches(url, patterns[q])
    ELSE 0

extract_channel_id(url) ==
    IF FirstPattern(url) = 0 THEN None ELSE Some(Group1(url, patterns[FirstPattern(url)]))

StartsWithUC(s) == Len(s) >= 2 /\ s[1] = "U" /\ s[2] = "C"

-----------------------------------------------------------------------------
(* rate_limit, run by one thread with nothing in between: g = [clock, last_request] *)

Woken(nw, dl) == IF dl > 0 THEN nw + dl ELSE nw

Slept(t) == [clock |-> t, last_request |-> t]

rate_limit(g) == Slept(Woken(g.clock, RATE_LIMIT_DELAY - (g.clock - g.last_request)))

-----------------------------------------------------------------------------
(* The Data Provider *)

CanonicalId == <<"U", "C", "C">>

LookupResponses ==
    { [status |-> "error"],
      [status |-> "ok", items |-> <<>>],
      [status |-> "ok", items |-> <<[id |-> [channelId |-> CanonicalId]]>>] }

SnippetVals == [thumbnail |-> {"http://img"}, description |-> {"about"}]

\* every item carries a title; any other field may be missing
Snippets == { ("title" :> "T") @@ d : d \in Dicts({"thumbnail", "description"}, SnippetVals) }

StatisticsVals == [subscriberCount |-> {1000}, viewCount |-> {1, 1000}, videoCount |-> {0, 3}]

Items ==
    { [snippet |-> sn, statistics |-> st] :
        sn \in Snippets,
        st \in Dicts({"subscriberCount", "viewCount", "videoCount"}, StatisticsVals) }

StatsResponses ==
    { [status |-> "error"], [status |-> "ok", items |-> <<>>] }
        \cup { [status |-> "ok", items |-> <<it>>] : it \in Items }

-----------------------------------------------------------------------------
(* get_channel_id_from_handle, get_channel_stats *)

Searched(handle, g1, resp) ==
    [ id    |-> IF resp.status = "ok" /\ resp.items # <<>>
                THEN Some(resp.items[1].id.channelId)
                ELSE None,
      g     |-> g1,
      calls |-> <<[api |-> "search", q |-> handle, at |-> g1.clock]>> ]

get_channel_id_from_handle(handle, g, resp) == Searched(handle, rate_limit(g), resp)

StatsDict(item, channel_id) ==
    [ title       |-> item.snippet["title"],
      subscribers |-> Get(item.statistics, "subscriberCount", 0),
      views       |-> Get(item.statistics, "viewCount", 0),
      videos      |-> Get(item.statistics, "videoCount", 0),
      thumbnail   |-> item.snippet["thumbnail"],
      description |-> Get(item.snippet, "description", ""),
      channel_id  |-> channel_id ]

\* ret: "stats" (a dict is returned), "none" (None is returned), "raise" (KeyError
\* leaves the function: only RequestException is caught at line 103).
\* The dict's "published" and "handle" entries are not read by index() and are left out.
Fetched(channel_id, g2, calls2, sresp) ==
    IF sresp.status # "ok" \/ sresp.items = <<>>
    THEN [ret |-> "none", g |-> g2, calls |-> calls2]
    ELSE IF ~Has(sresp.items[1].snippet, "title") \/ ~Has(sresp.items[1].snippet, "thumbnail")
    THEN [ret |-> "raise", g |-> g2, calls |-> calls2]
    ELSE [ret |-> "stats", g |-> g2, calls |-> calls2,
          stats |-> StatsDict(sresp.items[1], channel_id)]

Channels(channel_id, g2, calls1, sresp) ==
    Fetched(channel_id, g2,
            Append(calls1, [api |-> "channels", q |-> channel_id, at |-> g2.clock]), sresp)

\* the `if not channel_id: return None` of line 77 forgotten
ResolvedUnchecked(h, sresp) ==
    Channels(IF IsNone(h.id) THEN <<"N", "o", "n", "e">> ELSE h.id.v, rate_limit(h.g), h.calls, sresp)

Resolved(h, sresp) ==
    IF IsNone(h.id)
    THEN [ret |-> "none", g |-> h.g, calls |-> h.calls]
    ELSE Channels(h.id.v, rate_limit(h.g), h.calls, sresp)

get_channel_stats(channel_identifier, g, lresp, sresp) ==
    IF StartsWithUC(channel_identifier)
    THEN Resolved([id |-> Some(channel_identifier), g |-> g, calls |-> <<>>], sresp)
    ELSE Resolved(get_channel_id_from_handle(channel_identifier, g, lresp), sresp)

-----------------------------------------------------------------------------
(* estimate_earnings *)

E_FLOAT == "could not convert string to float"
E_PCT   == "Monetized percentage must be between 0 and 100"

\* the lower bound of the range check forgotten
PctAtMost100(p) == FLe(p, FromInt(100))

PctInRange(p) == FLe(FromInt(0), p) /\ FLe(p, FromInt(100))

Earnings(view_count, c, p) ==
    LET monetized == FMul(view_count, FDiv(p, FromInt(100)))
    IN  FMul(FDiv(monetized, FromInt(1000)), c)

Estimated(view_count, c, p) ==
    IF ~c.ok \/ ~p.ok
    THEN [earnings |-> FromInt(0), err |-> Some(E_FLOAT)]
    ELSE IF ~PctInRange(p.v)
    THEN [earnings |-> FromInt(0), err |-> Some(E_PCT)]
    ELSE [earnings |-> Round2(Earnings(view_count, c.v, p.v)), err |-> None]

estimate_earnings(view_count, cpm, monetized_pct) ==
    Estimated(view_count, ParseFloat(cpm), ParseFloat(monetized_pct))

-----------------------------------------------------------------------------
(* index *)

E_EMPTY   == "Please enter a YouTube channel URL."
E_FORMAT  == "Invalid or unsupported URL format. Please use a full YouTube channel URL."
E_FETCH   == "Could not fetch channel info. Please check the URL and try again."

default_cpm == <<"4", ".", "0">>
default_monetized_pct == <<"8", "0">>

Max(a, b) == IF a >= b THEN a ELSE b

\* a channel without videos given an average of 0 instead of dividing by max(videos, 1)
AvgViewsZeroWithoutVideos(stats) ==
    IF stats.videos = 0 THEN FromInt(0) ELSE FDiv(FromInt(stats.views), FromInt(stats.videos))

AvgViews(stats) == FDiv(FromInt(stats.views), FromInt(Max(stats.videos, 1)))

MonthlyViews(stats) == FMul(AvgViews(stats), FromInt(30))

YearlyEarnings(earnings) == Round2(FMul(earnings, FromInt(12)))

ResultDict(stats, est, cpm, monetized_pct) ==
    [ channel         |-> stats,
      monthly_views   |-> Trunc(MonthlyViews(stats)),
      earnings        |-> est.earnings,
      cpm             |-> ParseFloat(cpm).v,
      monetized_pct   |-> ParseFloat(monetized_pct).v,
      daily_views     |-> Trunc(AvgViews(stats)),
      yearly_earnings |-> YearlyEarnings(est.earnings) ]

Calculated(stats, est, cpm, monetized_pct) ==
    IF ~IsNone(est.err)
    THEN [result |-> None, error |-> est.err]
    ELSE [result |-> Some(ResultDict(stats, est, cpm, monetized_pct)), error |-> None]

Calculate(stats, cpm, monetized_pct) ==
    Calculated(stats, estimate_earnings(MonthlyViews(stats), cpm, monetized_pct),
               cpm, monetized_pct)

Outcome(ph, c, s) ==
    [phase |-> ph, result |-> c.result, error |-> c.error, calls |-> s.calls, g |-> s.g]

Failed(e) == [result |-> None, error |-> Some(e)]

Unset == [result |-> None, error |-> None]

Quiet(g) == [calls |-> <<>>, g |-> g]

\* the `if not stats:` branch of line 165 setting no error
WithStatsSilent(s, cpm, monetized_pct) ==
    IF s.ret = "raise" THEN Outcome("crashed", Unset, s)
    ELSE IF s.ret = "none" THEN Outcome("rendered", Unset, s)
    ELSE Outcome("rendered", Calculate(s.stats, cpm, monetized_pct), s)

WithStats(s, cpm, monetized_pct) ==
    IF s.ret = "raise" THEN Outcome("crashed", Unset, s)
    ELSE IF s.ret = "none" THEN Outcome("rendered", Failed(E_FETCH), s)
    ELSE Outcome("rendered", Calculate(s.stats, cpm, monetized_pct), s)

WithIdentifier(channel_identifier, cpm, monetized_pct, g, lresp, sresp) ==
    IF IsNone(channel_identifier)
    THEN Outcome("rendered", Failed(E_FORMAT), Quiet(g))
    ELSE WithStats(get_channel_stats(channel_identifier.v, g, lresp, sresp), cpm, monetized_pct)

WithUrl(url, cpm, monetized_pct, g, lresp, sresp) ==
    IF url = <<>>
    THEN Outcome("rendered", Failed(E_EMPTY), Quiet(g))
    ELSE WithIdentifier(extract_channel_id(url), cpm, monetized_pct, g, lresp, sresp)

\* the POST branch of index(): what the handler leaves behind.  The `except
\* Exception` of line 190 is never entered: with the statistics in hand and both
\* numbers parsed, nothing in lines 169-189 raises.  An exception raised by
\* get_channel_stats (line 164, outside the try) leaves index(): phase "crashed".
index(f, g, lresp, sresp) ==
    WithUrl(Strip(Get(f, "channel_url", <<>>)),
            Strip(Get(f, "custom_cpm", default_cpm)),
            Get(f, "monetized_pct", default_monetized_pct),
            g, lresp, sresp)

-----------------------------------------------------------------------------
(* Requests *)

BodyChars == {"U", "C", " "}

Urls ==
    { pre \o body : pre \in {<<>>} \cup {<<patterns[p]>> : p \in 1..Len(patterns)},
                    body \in BoundedSeq(BodyChars, MaxBody) }

CpmTexts == { <<"a", "b", "c">>, <<"0">>, <<"-", "4">> }

PctTexts == { <<"0">>, <<"1", "5", "0">>, <<"-", "1">> }

FormVals == [channel_url |-> Urls, custom_cpm |-> CpmTexts, monetized_pct |-> PctTexts]

Forms == Dicts({"channel_url", "custom_cpm", "monetized_pct"}, FormVals)

Apis(cs) == {cs[i].api : i \in 1..Len(cs)}

\* the answers the Data Provider can give to the calls this request makes
LookupChoices(f, g) ==
    IF "search" \in Apis(index(f, g, NoResponse, NoResponse).calls)
    THEN LookupResponses ELSE {NoResponse}

StatsChoices(f, g, lresp) ==
    IF "channels" \in Apis(index(f, g, lresp, NoResponse).calls)
    THEN StatsResponses ELSE {NoResponse}

Threads == 1..NThreads

Init ==
    /\ phase = "idle"
    /\ method = "GET"
    /\ form = <<>>
    /\ lookup_resp = NoResponse
    /\ stats_resp = NoResponse
    /\ result = None
    /\ error = None
    /\ calls = <<>>
    /\ clock = RATE_LIMIT_DELAY
    /\ last_request = 0
    /\ pc = [t \in Threads |-> "out"]
    /\ now = [t \in Threads |-> 0]
    /\ delay = [t \in Threads |-> 0]
    /\ wake = [t \in Threads |-> 0]
    /\ passed = <<>>

\* GET /: the form is rendered with neither result nor error
GetIndex ==
    /\ phase = "idle"
    /\ phase' = "rendered"
    /\ method' = "GET"
    /\ form' = <<>>
    /\ result' = None
    /\ error' = None
    /\ calls' = <<>>
    /\ lookup_resp' = NoResponse
    /\ stats_resp' = NoResponse
    /\ UNCHANGED <<clock, last_request, gateVars>>

Served(f, lresp, sresp, out) ==
    /\ out.g.clock <= MaxClock
    /\ phase' = out.phase
    /\ method' = "POST"
    /\ form' = f
    /\ result' = out.result
    /\ error' = out.error
    /\ calls' = out.calls
    /\ lookup_resp' = lresp
    /\ stats_resp' = sresp
    /\ clock' = out.g.clock
    /\ last_request' = out.g.last_request

Gate == [clock |-> clock, last_request |-> last_request]

\* POST /: the whole handler, with the answers of the Data Provider
PostIndex ==
    /\ phase = "idle"
    /\ \E f \in Forms :
         \E lresp \in LookupChoices(f, Gate) :
         \E sresp \in StatsChoices(f, Gate, lresp) :
            Served(f, lresp, sresp, index(f, Gate, lresp, sresp))
    /\ UNCHANGED gateVars

\* the response has been sent: the request's locals are gone, the gate's state stays
Respond ==
    /\ phase \in {"rendered", "crashed"}
    /\ phase' = "idle"
    /\ method' = "GET"
    /\ form' = <<>>
    /\ result' = None
    /\ error' = None
    /\ calls' = <<>>
    /\ lookup_resp' = NoResponse
    /\ stats_resp' = NoResponse
    /\ UNCHANGED <<clock, last_request, gateVars>>

Next == GetIndex \/ PostIndex \/ Respond

Spec == Init /\ [][Next]_vars

-----------------------------------------------------------------------------
(* rate_limit under the threaded server: one step per statement *)

\* a call site (line 54 or line 80) calls rate_limit()
Enter(t) ==
    /\ pc[t] = "out"
    /\ Len(passed) + Cardinality({u \in Threads : pc[u] # "out"}) < MaxPasses
    /\ pc' = [pc EXCEPT ![t] = "l28"]
    /\ UNCHANGED <<pipeVars, clock, last_request, now, delay, wake, passed>>

\* now = time.time()
ReadClock(t) ==
    /\ pc[t] = "l28"
    /\ now' = [now EXCEPT ![t] = clock]
    /\ pc' = [pc EXCEPT ![t] = "l29"]
    /\ UNCHANGED <<pipeVars, clock, last_request, delay, wake, passed>>

\* delay = RATE_LIMIT_DELAY - (now - last_request); if delay > 0: time.sleep(delay)
ComputeDelay(t) ==
    /\ pc[t] = "l29"
    /\ LET d == RATE_LIMIT_DELAY - (now[t] - last_request) IN
         /\ delay' = [delay EXCEPT ![t] = d]
         /\ wake' = [wake EXCEPT ![t] = IF d > 0 THEN clock + d ELSE clock]
         /\ pc' = [pc EXCEPT ![t] = IF d > 0 THEN "l31" ELSE "l32"]
    /\ UNCHANGED <<pipeVars, clock, last_request, now, passed>>

\* time.sleep(delay) returns
Wake(t) ==
    /\ pc[t] = "l31"
    /\ clock >= wake[t]
    /\ pc' = [pc EXCEPT ![t] = "l32"]
    /\ UNCHANGED <<pipeVars, clock, last_request, now, delay, wake, passed>>

\* last_request = time.time(); the caller leaves the gate and issues its call
Store(t) ==
    /\ pc[t] = "l32"
    /\ last_request' = clock
    /\ passed' = Append(passed, clock)
    /\ pc' = [pc EXCEPT ![t] = "out"]
    /\ UNCHANGED <<pipeVars, clock, now, delay, wake>>

Tick ==
    /\ clock < MaxClock
    /\ clock' = clock + 1
    /\ UNCHANGED <<pipeVars, last_request, gateVars>>

NextGate == Tick \/ \E t \in Threads : Enter(t) \/ ReadClock(t) \/ ComputeDelay(t) \/ Wake(t) \/ Store(t)

SpecGate == Init /\ [][NextGate]_vars

-----------------------------------------------------------------------------
(* What a served request shows *)

ReqUrl == Strip(Get(form, "channel_url", <<>>))
ReqCpm == ParseFloat(Strip(Get(form, "custom_cpm", default_cpm)))
ReqPct == ParseFloat(Get(form, "monetized_pct", default_monetized_pct))

Posted == method = "POST" /\ phase # "idle"
Finished == method = "POST" /\ phase = "rendered"

Recognized == ReqUrl # <<>> /\ FirstPattern(ReqUrl) # 0
Kind == patterns[FirstPattern(ReqUrl)]
Identifier == extract_channel_id(ReqUrl).v

CountCalls(api) == Cardinality({i \in 1..Len(calls) : calls[i].api = api})

NoItems(resp) == resp.status = "ok" /\ resp.items = <<>>
HasItem(resp) == resp.status = "ok" /\ resp.items # <<>>

\* the statistics were fetched and the estimation stage ran
EstimationRan == Finished /\ HasItem(stats_resp)

BadCpm == ~ReqCpm.ok \/ ReqCpm.v.n <= 0
\* the range [0,100] as the claims state it
Within0To100(p) == p.n >= 0 /\ p.n <= 100 * p.d
PctOutOfRange == ReqPct.ok /\ ~Within0To100(ReqPct.v)

-----------------------------------------------------------------------------
(* Claims *)

\* C1: any two consecutive passes through the rate-limit gate are at least
\* RATE_LIMIT_DELAY apart, whatever the interleaving of the threads.
C1_GateSpacing ==
    \A i \in 1..(Len(passed) - 1) : passed[i + 1] - passed[i] >= RATE_LIMIT_DELAY

\* C2: a request whose CPM is not a number, or whose monetized percentage is
\* outside [0,100], fails without a single outbound call.
C2_ValidatedBeforeCalls ==
    (Finished /\ (~ReqCpm.ok \/ PctOutOfRange)) => (IsNone(result) /\ calls = <<>>)

\* C3: the lookup is skipped exactly when the identifier came from the
\* /channel/ form and has the channel-ID shape (read here as the UC prefix
\* alone); every other identifier costs exactly one lookup call, made before
\* the statistics call.
C3_LookupUnlessChannelId ==
    (Posted /\ Recognized) =>
        IF Kind = P_CHANNEL /\ StartsWithUC(Identifier)
        THEN CountCalls("search") = 0
        ELSE CountCalls("search") = 1 /\ calls[1].api = "search"

\* C4: a handle whose lookup answers with no items ends the request with the
\* could-not-fetch error, no estimate, and the lookup as its only outbound call.
C4_HandleNotFound ==
    (Posted /\ Recognized /\ Kind = P_HANDLE /\ NoItems(lookup_resp)) =>
        /\ phase = "rendered"
        /\ IsNone(result)
        /\ error = Some(E_FETCH)
        /\ Len(calls) = 1 /\ calls[1].api = "search"
        /\ stats_resp = NoResponse

C4_Witness ==
    /\ Posted /\ Recognized /\ Kind = P_HANDLE /\ NoItems(lookup_resp)
    /\ calls # <<>> /\ calls[1].q = Identifier

\* C5: with the statistics fetched, a monetized percentage outside [0,100]
\* gives an error and no estimate (the percentage message when the CPM is a
\* number); a percentage of 0 with a numeric CPM gives earnings of 0 and no error.
C5_PercentRange ==
    EstimationRan =>
        /\ PctOutOfRange =>
              /\ IsNone(result)
              /\ ~IsNone(error)
              /\ ReqCpm.ok => error = Some(E_PCT)
        /\ (ReqPct.ok /\ ReqPct.v.n = 0 /\ ReqCpm.ok) =>
              /\ IsNone(error)
              /\ ~IsNone(result)
              /\ result.v.earnings.n = 0

C5_Witness == EstimationRan /\ PctOutOfRange /\ ReqCpm.ok /\ error = Some(E_PCT)

C5_WitnessZero == EstimationRan /\ ReqPct.ok /\ ReqPct.v.n = 0 /\ ReqCpm.ok /\ ~IsNone(result)

\* C6: a CPM that is not a number, or is zero or negative, gives an error and
\* no estimate.
C6_CpmRejected ==
    (EstimationRan /\ BadCpm) => (IsNone(result) /\ ~IsNone(error))

\* C7 as claimed: a channel with videoCount = 0 gets monthly_views = 0.
C7_ZeroVideosZeroViews ==
    (Finished /\ ~IsNone(result) /\ result.v.channel.videos = 0) =>
        result.v.monthly_views = 0

\* C7 as amended: with videoCount = 0 the average divides by max(0, 1) = 1, so
\* monthly_views is 30 times the total view count and daily_views is the total
\* view count; it is 0 only for a channel with no views.
C7_ZeroVideosThirtyTimesViews ==
    (Finished /\ ~IsNone(result) /\ result.v.channel.videos = 0) =>
        /\ result.v.monthly_views = 30 * result.v.channel.views
        /\ result.v.daily_views = result.v.channel.views

C7_Witness ==
    /\ Finished /\ ~IsNone(result)
    /\ result.v.channel.videos = 0
    /\ result.v.channel.views > 0
    /\ result.v.monthly_views > 0

\* C8: yearly_earnings is 12 times the unrounded monthly earnings, rounded to
\* 2 decimals.
C8_YearlyFromFullPrecision ==
    (Finished /\ ~IsNone(result)) =>
        FEq(result.v.yearly_earnings,
            Round2(FMul(Earnings(MonthlyViews(result.v.channel), ReqCpm.v, ReqPct.v),
                        FromInt(12))))

\* C9: an item with missing fields never makes the request crash: missing
\* counts read as 0, a missing thumbnail or description as the empty string.
C9_MissingFieldsDefaulted ==
    (Posted /\ HasItem(stats_resp)) =>
        /\ phase = "rendered"
        /\ ~IsNone(result) =>
              /\ result.v.channel.subscribers = Get(stats_resp.items[1].statistics, "subscriberCount", 0)
              /\ result.v.channel.views = Get(stats_resp.items[1].statistics, "viewCount", 0)
              /\ result.v.channel.videos = Get(stats_resp.items[1].statistics, "videoCount", 0)
              /\ result.v.channel.thumbnail = Get(stats_resp.items[1].snippet, "thumbnail", "")
              /\ result.v.channel.description = Get(stats_resp.items[1].snippet, "description", "")

\* C10: a POST that reaches render_template has exactly one of result and
\* error set; a failed stage leaves result unset and runs no later stage.
C10_ResultXorError ==
    Finished =>
        /\ IsNone(result) # IsNone(error)
        /\ ReqUrl = <<>> => (error = Some(E_EMPTY) /\ calls = <<>>)
        /\ (ReqUrl # <<>> /\ ~Recognized) => (error = Some(E_FORMAT) /\ calls = <<>>)
        /\ (lookup_resp # NoResponse /\ ~HasItem(lookup_resp)) =>
              (error = Some(E_FETCH) /\ CountCalls("channels") = 0 /\ stats_resp = NoResponse)
        /\ (stats_resp # NoResponse /\ ~HasItem(stats_resp)) => error = Some(E_FETCH)
        /\ ~IsNone(error) => IsNone(result)
        /\ ~IsNone(result) => (HasItem(stats_resp) /\ ReqCpm.ok /\ ReqPct.ok /\ Within0To100(ReqPct.v))

C10_Witness ==
    /\ Finished /\ IsNone(result) /\ error = Some(E_FETCH)
    /\ CountCalls("search") = 1 /\ CountCalls("channels") = 1

====
